---- MODULE Spec2Model ----
(***************************************************************************)
(* A model of the name relay of agrinh/snfcode (src/nameserver.py):        *)
(*   - the producer process calling mpqueue.put for every extracted name   *)
(*     (namestream.NamedEntityStreamer.on_success),                        *)
(*   - the multiprocessing.Queue between the two processes (semaphore,     *)
(*     feeder buffer, pipe),                                               *)
(*   - the relay process: asyncore.loop dispatching NameServer.            *)
(*     handle_accept and the ConnectionHandlers' read and write events.    *)
(* The relay process is single threaded: every event handler runs to       *)
(* completion, so each is one action.  The producer and the queue's feeder *)
(* thread run concurrently with it.                                        *)
(***************************************************************************)
EXTENDS Integers, Sequences, FiniteSets, TLC

\* NameServer.MAXCONN: 10 in the source (src/nameserver.py:93), scaled down.
MAXCONN == 2

\* Capacity of mpqueue: multiprocessing.Queue(100) in the source
\* (src/nameserver.py:176), scaled down.
QueueCap == 1

\* Number of client connection attempts over a run.
MaxClients == 4

\* Number of names the producer extracts over a run.
MaxPush == 2

\* Number of direct calls of NameServer.unregister made by the harness.
MaxCalls == 2

Conns == 1..MaxClients

VARIABLES
    count,      \* NameServer.__count
    listening,  \* the NameServer is in asyncore's socket map (accepting)
    relay,      \* the relay process: "running", or "crashed" once an
                \* exception has left asyncore.loop
    h,          \* per client connection: the connection and its handler
    ready,      \* handlers select() reported writable in the current poll
    buffer,     \* mpqueue: items put, not yet written to the pipe
    pipe,       \* mpqueue: items in the pipe, visible to get() and empty()
    npush,      \* number of put calls the producer has made
    ppc,        \* producer: "idle", or "put" while inside mpqueue.put
    ucalls,     \* number of direct unregister() calls made so far
    uexc,       \* outcome of the last direct unregister() call
    names,      \* the names the upstream extraction yields, in order
    ap,         \* the AsyncoreProcess object: its state, __inits in the
                \* parent, the child's copy of __inits, the dispatchers
                \* run() has instantiated, the last call's outcome, and the
                \* number of add calls made (history)
    det         \* a LanguageDetector, a text, and the result of ==

vars == <<count, listening, relay, h, ready, buffer, pipe, npush, ppc,
          ucalls, uexc, names, ap, det>>

relayVars == <<count, listening, relay, h, ready>>
queueVars == <<buffer, pipe>>
prodVars == <<npush, ppc>>
callVars == <<ucalls, uexc, names, ap, det>>

(***************************************************************************)
(* A connection c is                                                       *)
(*   "new"      not yet attempted by the client                            *)
(*   "pending"  connected by the client, waiting in the listen backlog     *)
(*   "aborted"  accept() returned None for it                              *)
(*   "refused"  accepted while the count was at MAXCONN: no handler        *)
(*   "failed"   counted, but the handler's constructor raised              *)
(*   "open"     a ConnectionHandler exists and is in the socket map        *)
(*   "closed"   its ConnectionHandler has closed                          *)
(* sock: the accepted (server side) socket is open.                        *)
(* connected: asyncore.dispatcher.connected.                               *)
(* fifo: async_chat.producer_fifo, a sequence of byte strings.             *)
(* wire: the bytes handed to the socket so far.                            *)
(* got: the ids of the items this handler popped, in order (history).      *)
(* unreg: the number of calls of unregister() made by this handler         *)
(*        (history).                                                       *)
(***************************************************************************)
NoConn ==
    [st |-> "new", sock |-> FALSE, connected |-> FALSE, fifo |-> <<>>,
     wire |-> <<>>, got |-> <<>>, unreg |-> 0]

\* The text of the k-th name the producer extracts.
Text(k) == names[k]

\* bytes(item + '\n', 'utf-8')
Frame(k) == Text(k) \o <<"\n">>

\* The relay and the queue once the process has started and NameServer has
\* been instantiated.
InitRelay ==
    /\ count = 0
    /\ listening = TRUE
    /\ relay = "running"
    /\ h = [c \in Conns |-> NoConn]
    /\ ready = {}
    /\ buffer = <<>>
    /\ pipe = <<>>
    /\ npush = 0
    /\ ppc = "idle"
    /\ ucalls = 0
    /\ uexc = "none"

\* Names as the tokenizer yields them: no line break inside a name.
PlainNames == [k \in 1..MaxPush |-> <<ToString(k)>>]

\* __main__: async.add(NameServer, ...); async.start(), the run loop entered.
StartedProcess ==
    [state |-> "loop", inits |-> <<"NameServer">>, copy |-> <<"NameServer">>,
     made |-> <<"NameServer">>, exc |-> "none", adds |-> 1]

NoDetector == [vocab |-> {}, text |-> <<>>, thr |-> 0, res |-> "none"]

Init ==
    /\ InitRelay
    /\ names = PlainNames
    /\ ap = StartedProcess
    /\ det = NoDetector

----------------------------------------------------------------------------
(* The producer and the queue.                                             *)

\* NamedEntityStreamer.on_success: self.__callback(name), the callback being
\* mpqueue.put.
ProducerCall ==
    /\ ppc = "idle"
    /\ npush < MaxPush
    /\ npush' = npush + 1
    /\ ppc' = "put"
    /\ UNCHANGED <<relayVars, queueVars, callVars>>

\* Queue.put(obj, block=True, timeout=None): self._sem.acquire(block, timeout)
\* succeeds only while fewer than maxsize items are held.
SemAcquirableLoose(n) == n <= QueueCap

SemAcquirable(n) == n < QueueCap

\* Queue.put once the semaphore is acquired: the item goes to the feeder
\* buffer and put returns.
PutAcquire ==
    /\ ppc = "put"
    /\ SemAcquirable(Len(buffer) + Len(pipe))
    /\ buffer' = Append(buffer, npush)
    /\ ppc' = "idle"
    /\ UNCHANGED <<relayVars, pipe, npush, callVars>>

\* Queue._feed: the feeder thread writes the oldest buffered item to the pipe.
Feed ==
    /\ buffer # <<>>
    /\ pipe' = Append(pipe, Head(buffer))
    /\ buffer' = Tail(buffer)
    /\ UNCHANGED <<relayVars, prodVars, callVars>>

\* Queue.empty(): not self._poll()
QueueEmpty(p) == p = <<>>

\* Queue.get(0): block = 0, so it raises queue.Empty when the pipe holds
\* nothing, and otherwise receives the oldest item and releases the semaphore.
QueueGetPeek(p) ==
    IF p = <<>> THEN [empty |-> TRUE, item |-> 0, rest |-> p]
    ELSE [empty |-> FALSE, item |-> Head(p), rest |-> p]

QueueGetSentinel(p) ==
    IF p = <<>> THEN [empty |-> FALSE, item |-> 1, rest |-> p]
    ELSE [empty |-> FALSE, item |-> Head(p), rest |-> Tail(p)]

QueueGet(p) ==
    IF p = <<>> THEN [empty |-> TRUE, item |-> 0, rest |-> p]
    ELSE [empty |-> FALSE, item |-> Head(p), rest |-> Tail(p)]

----------------------------------------------------------------------------
(* The registry: NameServer.__count.                                       *)

CanRegisterLoose(n) == n <= MAXCONN

\* handle_accept: self.__count < self.MAXCONN
CanRegister(n) == n < MAXCONN

UnregisterClamp(n) ==
    IF n <= 0 THEN [raised |-> FALSE, count |-> 0]
    ELSE [raised |-> FALSE, count |-> n - 1]

\* NameServer.unregister: raises ValueError when the count is not positive,
\* and otherwise decrements it.
Unregister(n) ==
    IF n <= 0 THEN [raised |-> TRUE, count |-> n]
    ELSE [raised |-> FALSE, count |-> n - 1]

----------------------------------------------------------------------------
(* The handlers.  An event handler works on a record                       *)
(*   [count, hd, exc]: the registry count, the handler's own state, and    *)
(*   whether an exception is propagating out of the handler.               *)

HandleCloseNoUnregister(r) ==
    [r EXCEPT !.hd.st = "closed", !.hd.sock = FALSE, !.hd.connected = FALSE]

\* ConnectionHandler.handle_close: self.__server.unregister(), then
\* asyncore.dispatcher.handle_close -> close(): connected = False,
\* del_channel(), socket.close().  When unregister raises, the close is not
\* reached and the exception propagates.
HandleClose(r) ==
    LET u == Unregister(r.count) IN
    IF u.raised
    THEN [r EXCEPT !.exc = TRUE, !.hd.unreg = @ + 1]
    ELSE [count |-> u.count,
          hd |-> [r.hd EXCEPT !.st = "closed", !.sock = FALSE,
                              !.connected = FALSE, !.unreg = @ + 1],
          exc |-> FALSE]

\* What socket.send does in dispatcher.send: it takes all of the data or a
\* part of it, or fails with EWOULDBLOCK ("block": send returns 0), with an
\* errno of _DISCONNECTED ("disc": send calls handle_close and returns 0) or
\* with another OSError ("err": initiate_send calls handle_error, which calls
\* handle_close).
SendOutcomes == {"all", "part", "block", "disc", "err"}

NumSent(first, o) == IF o = "all" THEN Len(first) ELSE 1

InitiateSendDropRest(r, o) ==
    IF r.exc \/ r.hd.fifo = <<>> \/ ~r.hd.connected THEN r
    ELSE IF o = "block" THEN r
    ELSE IF o \in {"disc", "err"} THEN HandleClose(r)
    ELSE [r EXCEPT
            !.hd.wire = @ \o SubSeq(Head(r.hd.fifo), 1,
                                    NumSent(Head(r.hd.fifo), o)),
            !.hd.fifo = Tail(@)]

\* async_chat.initiate_send: one send attempt of the first chunk of
\* producer_fifo, while the handler is connected.
InitiateSend(r, o) ==
    IF r.exc \/ r.hd.fifo = <<>> \/ ~r.hd.connected THEN r
    ELSE LET first == Head(r.hd.fifo)
             n == NumSent(first, o)
         IN  IF o = "block" THEN r
             ELSE IF o \in {"disc", "err"} THEN HandleClose(r)
             ELSE [r EXCEPT
                     !.hd.wire = @ \o SubSeq(first, 1, n),
                     !.hd.fifo = IF n < Len(first)
                                 THEN <<SubSeq(first, n + 1, Len(first))>>
                                      \o Tail(@)
                                 ELSE Tail(@)]

PushFifoFront(fifo, data) == <<data>> \o fifo

\* async_chat.push: self.producer_fifo.append(data)
PushFifo(fifo, data) == Append(fifo, data)

\* ConnectionHandler.handle_write: pop one item without blocking; when there
\* is one, push its frame (push ends with initiate_send); then
\* async_chat.handle_write, which is initiate_send again.
HandleWrite(r, g, o1, o2) ==
    LET r1 == IF g.empty THEN r
              ELSE InitiateSend(
                       [r EXCEPT !.hd.fifo = PushFifo(@, Frame(g.item)),
                                 !.hd.got = Append(@, g.item)], o1)
    IN  InitiateSend(r1, o2)

DispatchPropagate(r) ==
    IF r.exc THEN HandleClose([r EXCEPT !.exc = FALSE])
    ELSE IF r.hd.st = "closed" THEN [r EXCEPT !.exc = TRUE]
    ELSE r

\* asyncore.read / asyncore.write: an exception leaving the event handler is
\* caught and obj.handle_error() is called, which calls handle_close(); an
\* exception leaving that one leaves asyncore.loop.
Dispatch(r) ==
    IF r.exc THEN HandleClose([r EXCEPT !.exc = FALSE]) ELSE r

WritableNoQueue(hd, p) == hd.fifo # <<>> \/ ~hd.connected

\* ConnectionHandler.writable: async_chat.writable (producer_fifo or not
\* connected) or not self.__server._queue.empty()
Writable(hd, p) ==
    (hd.fifo # <<>> \/ ~hd.connected) \/ ~QueueEmpty(p)

Open(c) == h[c].st = "open"

\* asyncore.poll: select() over the handlers whose writable() is true; the
\* socket of such a handler may or may not be ready for writing.
Poll ==
    /\ relay = "running"
    /\ ready = {}
    /\ \E S \in SUBSET {c \in Conns : Open(c) /\ Writable(h[c], pipe)} :
          /\ S # {}
          /\ ready' = S
    /\ UNCHANGED <<count, listening, relay, h, queueVars, prodVars, callVars>>

\* asyncore.write(obj) -> handle_write_event -> ConnectionHandler.handle_write
HandleWriteEvent(c) ==
    /\ relay = "running"
    /\ c \in ready
    /\ Open(c)
    /\ \E o1 \in SendOutcomes, o2 \in SendOutcomes :
          LET g == QueueGet(pipe)
              r == Dispatch(HandleWrite(
                       [count |-> count, hd |-> h[c], exc |-> FALSE],
                       g, o1, o2))
          IN  /\ pipe' = g.rest
              /\ count' = r.count
              /\ h' = [h EXCEPT ![c] = r.hd]
              /\ relay' = IF r.exc THEN "crashed" ELSE relay
    /\ ready' = ready \ {c}
    /\ UNCHANGED <<listening, buffer, prodVars, callVars>>

\* What socket.recv does in dispatcher.recv: it returns data ("data":
\* collect_incoming_data and found_terminator do nothing), returns nothing
\* ("eof": recv calls handle_close), fails with an errno of _DISCONNECTED
\* ("disc": recv calls handle_close) or with another OSError ("err":
\* async_chat.handle_read calls handle_error, which calls handle_close).
ReadOutcomes == {"data", "eof", "disc", "err"}

\* asyncore.read(obj) -> handle_read_event -> async_chat.handle_read
HandleReadEvent(c) ==
    /\ relay = "running"
    /\ Open(c)
    /\ \E o \in ReadOutcomes :
          /\ o = "data" => h[c].connected
          /\ LET r0 == [count |-> count, hd |-> h[c], exc |-> FALSE]
                 r == IF o = "data" THEN r0 ELSE Dispatch(HandleClose(r0))
             IN  /\ count' = r.count
                 /\ h' = [h EXCEPT ![c] = r.hd]
                 /\ relay' = IF r.exc THEN "crashed" ELSE relay
                 /\ ready' = IF r.hd.st = "open" THEN ready ELSE ready \ {c}
    /\ UNCHANGED <<listening, queueVars, prodVars, callVars>>

----------------------------------------------------------------------------
(* The listener.                                                           *)

Pending == {c \in Conns : h[c].st = "pending"}
New == {c \in Conns : h[c].st = "new"}
Least(S) == CHOOSE c \in S : \A d \in S : c <= d

\* A client connects to the listening address.
ClientConnect ==
    /\ relay = "running"
    /\ listening
    /\ New # {}
    /\ h' = [h EXCEPT ![Least(New)].st = "pending"]
    /\ UNCHANGED <<count, listening, relay, ready, queueVars, prodVars,
                   callVars>>

\* dispatcher.accept: None (EWOULDBLOCK, ECONNABORTED, EAGAIN) or a socket.
AcceptOutcomes == {"none", "sock"}

\* dispatcher.__init__(sock): sock.getpeername() succeeds ("ok"), fails with
\* ENOTCONN or EINVAL ("notconn": connected = False), or fails otherwise
\* ("error": del_channel and re-raise).
PeerOutcomes == {"ok", "notconn", "error"}

\* ConnectionHandler(sock, server)
NewHandler(hd, p) ==
    IF p = "error" THEN [hd EXCEPT !.st = "failed", !.sock = FALSE]
    ELSE [hd EXCEPT !.st = "open", !.sock = TRUE, !.connected = (p = "ok")]

RefuseConnLeak(hd) == [hd EXCEPT !.st = "refused", !.sock = TRUE]

\* handle_accept when the count is at MAXCONN: nothing is done with the
\* accepted socket, and no handler is made.
RefuseConn(hd) == [hd EXCEPT !.st = "refused", !.sock = FALSE]

\* NameServer.handle_accept.  A socket that gets no handler is dropped when
\* handle_accept returns, which closes it.  An exception of the handler's
\* constructor leaves handle_accept: asyncore.read calls the listener's
\* handle_error, which closes the listener.
HandleAccept ==
    /\ relay = "running"
    /\ listening
    /\ Pending # {}
    /\ \E a \in AcceptOutcomes, p \in PeerOutcomes :
          LET c == Least(Pending) IN
          IF a = "none"
          THEN /\ h' = [h EXCEPT ![c].st = "aborted"]
               /\ UNCHANGED <<count, listening>>
          ELSE IF CanRegister(count)
          THEN /\ count' = count + 1
               /\ h' = [h EXCEPT ![c] = NewHandler(@, p)]
               /\ listening' = (p # "error")
          ELSE /\ h' = [h EXCEPT ![c] = RefuseConn(@)]
               /\ UNCHANGED <<count, listening>>
    /\ UNCHANGED <<relay, ready, queueVars, prodVars, callVars>>

\* NameServer.unregister called directly on the server object.
CallUnregister ==
    /\ relay = "running"
    /\ ucalls < MaxCalls
    /\ LET u == Unregister(count) IN
          /\ count' = u.count
          /\ uexc' = IF u.raised THEN "ValueError" ELSE "none"
    /\ ucalls' = ucalls + 1
    /\ UNCHANGED <<listening, relay, h, ready, queueVars, prodVars, names, ap,
                   det>>

\* asyncore.loop: "while map"; it returns once the socket map is empty, and
\* run() and the relay process end.
LoopExit ==
    /\ relay = "running"
    /\ ~listening
    /\ \A c \in Conns : ~Open(c)
    /\ relay' = "exited"
    /\ UNCHANGED <<count, listening, h, ready, queueVars, prodVars, callVars>>

----------------------------------------------------------------------------
Next ==
    \/ LoopExit
    \/ ProducerCall
    \/ PutAcquire
    \/ Feed
    \/ ClientConnect
    \/ HandleAccept
    \/ Poll
    \/ \E c \in Conns : HandleWriteEvent(c)
    \/ \E c \in Conns : HandleReadEvent(c)

Spec == Init /\ [][Next]_vars

\* The registry alone: connections are accepted and closed, and a caller
\* also invokes NameServer.unregister directly; no name is produced.
RegistryNext ==
    \/ ClientConnect
    \/ HandleAccept
    \/ \E c \in Conns : HandleReadEvent(c)
    \/ CallUnregister

RegistrySpec == Init /\ [][RegistryNext]_vars

\* Names that may hold a line break: the ingress takes any string.
Texts == {<<"a">>, <<"a", "\n", "b">>}

FramingInit ==
    /\ InitRelay
    /\ names \in [1..MaxPush -> Texts]
    /\ ap = StartedProcess
    /\ det = NoDetector

\* The relay fed with any names.
FramingSpec == FramingInit /\ [][Next]_vars

----------------------------------------------------------------------------
(* AsyncoreProcess: a multiprocessing.Process holding the dispatchers to   *)
(* instantiate.  add() and start() run in the parent; run() runs in the    *)
(* child, on the copy of __inits the child got when it was started.        *)
(* ap.state is "initial" (never started), "started" (the child is inside   *)
(* run's for loop), "loop" (the child is inside asyncore.loop) or          *)
(* "stopped" (the child has terminated).                                   *)

\* Number of add() calls over a run.
MaxAdds == 3

\* The (cls, args, kwargs) entries given to add.
Components == {"NameServer", "Other"}

NewProcess ==
    [state |-> "initial", inits |-> <<>>, copy |-> <<>>, made |-> <<>>,
     exc |-> "none", adds |-> 0]

ProcessInit ==
    /\ InitRelay
    /\ names = PlainNames
    /\ ap = NewProcess
    /\ det = NoDetector

\* Process.is_alive(): the child exists and has not terminated.
IsAlive(p) == p.state \in {"started", "loop"}

\* AsyncoreProcess.add
Add(comp) ==
    /\ ap.adds < MaxAdds
    /\ ap' = IF IsAlive(ap)
                THEN [ap EXCEPT !.exc = "RuntimeError", !.adds = @ + 1]
                ELSE [ap EXCEPT !.inits = Append(@, comp), !.exc = "none",
                                !.adds = @ + 1]
    /\ UNCHANGED <<relayVars, queueVars, prodVars, ucalls, uexc, names, det>>

\* Process.start(): asserts the process was never started, then makes the
\* child, which runs run() on its copy of the object.
Start ==
    /\ ap' = IF ap.state = "initial"
                THEN [ap EXCEPT !.state = "started", !.copy = ap.inits,
                                !.exc = "none"]
                ELSE [ap EXCEPT !.exc = "AssertionError"]
    /\ UNCHANGED <<relayVars, queueVars, prodVars, ucalls, uexc, names, det>>

NextInitLast(copy, made) == copy[Len(copy) - Len(made)]

\* The entry the for loop of run() takes next.
NextInit(copy, made) == copy[Len(made) + 1]

\* run(): one iteration of the for loop, cls(*args, **kwargs); a constructor
\* that raises ends the child.
RunInstantiate ==
    /\ ap.state = "started"
    /\ Len(ap.made) < Len(ap.copy)
    /\ \E ok \in BOOLEAN :
           ap' = IF ok
                     THEN [ap EXCEPT
                               !.made = Append(@, NextInit(ap.copy, ap.made))]
                     ELSE [ap EXCEPT !.state = "stopped"]
    /\ UNCHANGED <<relayVars, queueVars, prodVars, ucalls, uexc, names, det>>

\* run(): the for loop is exhausted, asyncore.loop(timeout=1) is entered.
EnterLoop ==
    /\ ap.state = "started"
    /\ Len(ap.made) = Len(ap.copy)
    /\ ap' = [ap EXCEPT !.state = "loop"]
    /\ UNCHANGED <<relayVars, queueVars, prodVars, ucalls, uexc, names, det>>

\* asyncore.loop returns or the process is shut down: the child terminates.
ProcEnd ==
    /\ ap.state = "loop"
    /\ ap' = [ap EXCEPT !.state = "stopped"]
    /\ UNCHANGED <<relayVars, queueVars, prodVars, ucalls, uexc, names, det>>

ProcessNext ==
    \/ \E comp \in Components : Add(comp)
    \/ Start
    \/ RunInstantiate
    \/ EnterLoop
    \/ ProcEnd

ProcessSpec == ProcessInit /\ [][ProcessNext]_vars


----------------------------------------------------------------------------
(* namestream.LanguageDetector.  A text is a sequence of characters, a     *)
(* word a non-empty sequence of characters other than the blank.           *)

\* Length of the texts classified.
MaxText == 3

\* The thresholds considered are 0/ThrSteps, 1/ThrSteps, .. 1.
ThrSteps == 4

Chars == {"a", "A", "b", " "}

\* The words handed to the constructor as the vocabulary.
RawWords == {<<"A">>, <<"b">>}

TextsUpTo(n) == UNION {[1..k -> Chars] : k \in 0..n}

\* str.lower
Lower(w) == [k \in DOMAIN w |-> IF w[k] = "A" THEN "a" ELSE w[k]]

\* str.split(): the maximal runs of non-blank characters, in order; cur is
\* the run being read.
RECURSIVE SplitText(_, _)
SplitText(t, cur) ==
    IF t = <<>> THEN (IF cur = <<>> THEN <<>> ELSE <<cur>>)
    ELSE IF Head(t) = " "
         THEN (IF cur = <<>> THEN <<>> ELSE <<cur>>)
              \o SplitText(Tail(t), <<>>)
         ELSE SplitText(Tail(t), Append(cur, Head(t)))

\* words = set(word.lower() for word in text.split())
WordsOf(t) ==
    LET ws == SplitText(t, <<>>) IN {Lower(ws[k]) : k \in DOMAIN ws}

\* LanguageDetector.__init__
NewDetector(raw, thr) ==
    [vocab |-> {Lower(w) : w \in raw}, text |-> <<>>, thr |-> thr,
     res |-> "none"]

\* LanguageDetector.__eq__, the threshold being d.thr / ThrSteps.
DetectorEq(d, t) ==
    LET words == WordsOf(t)
        unusual == words \ d.vocab
    IN  Cardinality(unusual) * ThrSteps <= Cardinality(words) * d.thr

DetectorInit ==
    /\ InitRelay
    /\ names = PlainNames
    /\ ap = StartedProcess
    /\ \E raw \in SUBSET RawWords, thr \in 0..ThrSteps :
           det = NewDetector(raw, thr)

\* english == text
Classify ==
    /\ det.res = "none"
    /\ \E t \in TextsUpTo(MaxText) :
           det' = [det EXCEPT !.text = t,
                              !.res = IF DetectorEq(det, t) THEN "yes"
                                      ELSE "no"]
    /\ UNCHANGED <<relayVars, queueVars, prodVars, ucalls, uexc, names, ap>>

DetectorSpec == DetectorInit /\ [][Classify]_vars


\* The event loop keeps polling and dispatching, the feeder thread keeps
\* feeding, and a put whose semaphore is free returns.  Nothing obliges a
\* client to connect or the producer to extract another name.
Fairness ==
    /\ WF_vars(PutAcquire)
    /\ WF_vars(Feed)
    /\ WF_vars(Poll)
    /\ WF_vars(HandleAccept)
    /\ \A c \in Conns : WF_vars(HandleWriteEvent(c))

FairSpec == Spec /\ Fairness

----------------------------------------------------------------------------
(* Helpers of the properties.                                              *)

RECURSIVE Flat(_)
Flat(ss) == IF ss = <<>> THEN <<>> ELSE Head(ss) \o Flat(Tail(ss))

RECURSIVE FramesOf(_)
FramesOf(ids) ==
    IF ids = <<>> THEN <<>> ELSE Frame(Head(ids)) \o FramesOf(Tail(ids))

IsPrefix(a, b) == Len(a) <= Len(b) /\ SubSeq(b, 1, Len(a)) = a

Occurs(s, i) == Cardinality({k \in DOMAIN s : s[k] = i})

RECURSIVE SumOver(_, _)
SumOver(S, i) ==
    IF S = {} THEN 0
    ELSE LET c == Least(S) IN Occurs(h[c].got, i) + SumOver(S \ {c}, i)

\* The whole frame of item i has been handed to the socket of connection c.
Received(c, i) ==
    \E k \in DOMAIN h[c].got :
        /\ h[c].got[k] = i
        /\ IsPrefix(FramesOf(SubSeq(h[c].got, 1, k)), h[c].wire)

\* put(i) has returned.
PutDone(i) == i <= npush /\ ~(ppc = "put" /\ i = npush)

\* accept() returned a socket for c.
SockAccepted(c) == h[c].st \in {"refused", "failed", "open", "closed"}

\* c was counted by handle_accept.
Registered(c) == h[c].st \in {"failed", "open", "closed"}

----------------------------------------------------------------------------
\* C1: in every reachable state the connection count n satisfies
\* 0 <= n <= MAXCONN.
C1_CountInRange == count \in 0..MAXCONN

C1_Witness ==
    /\ count = MAXCONN
    /\ \E c \in Conns : h[c].st = "closed"
    /\ \E c \in Conns : h[c].st = "refused"

C2_Inv ==
    (\A c \in Conns : h[c].unreg = 0) =>
        \A c \in Conns :
            SockAccepted(c) =>
                (Registered(c) <=>
                    Cardinality({d \in 1..(c - 1) : SockAccepted(d)}) < MAXCONN)

C2_Step ==
    \A c \in Conns :
        (h[c].st = "pending" /\ h'[c].st \in {"refused", "failed", "open"}) =>
            IF count < MAXCONN
            THEN count' = count + 1 /\ h'[c].st # "refused"
            ELSE count' = count /\ h'[c].st = "refused"

\* C2: as long as no teardown has happened, the accept events that yield a
\* socket register exactly the first MAXCONN connections and reject the
\* later ones; and an accept event registers a connection exactly when the
\* count is below MAXCONN, so the accept that follows an unregister at
\* MAXCONN registers again.
C2_FirstMaxconnRegistered == [](C2_Inv) /\ [][C2_Step]_vars

C2_Witness ==
    \E c, d, e \in Conns :
        /\ c < d /\ d < e
        /\ h[c].st = "closed"
        /\ h[d].st = "refused"
        /\ h[e].st = "open"
        /\ count = MAXCONN

C3_Step ==
    \A c \in Conns :
        (h[c].st = "pending" /\ h'[c].st # "pending" /\ count = MAXCONN) =>
            /\ h'[c].st \in {"refused", "aborted"}
            /\ ~h'[c].sock
            /\ h'[c].fifo = <<>> /\ h'[c].got = <<>>
            /\ count' = count
            /\ buffer' = buffer /\ pipe' = pipe
            /\ \A d \in Conns \ {c} : h'[d] = h[d]

\* C3: an accept event at count = MAXCONN leaves the accepted socket closed
\* and without a handler, and changes neither the count nor the queue.
C3_RejectAtCapacity == [][C3_Step]_vars

C3_Witness ==
    \E c \in Conns : h[c].st = "refused" /\ ~h[c].sock /\ count = MAXCONN

C4_Step ==
    /\ (ucalls' = ucalls + 1 /\ count = 0) =>
           (count' = 0 /\ uexc' = "ValueError")
    /\ \A c \in Conns :
           (h'[c].unreg > h[c].unreg /\ count = 0) =>
               (count' = 0 /\ relay' = "crashed")

\* C4: unregister() at count 0 raises and leaves the count at 0, whether it
\* is called directly or by a handler's handle_close; the count is never
\* negative.
C4_UnderflowRaises == [](count >= 0) /\ [][C4_Step]_vars

C4_Witness == uexc = "ValueError" /\ count = 0 /\ ucalls > 0

\* C5: a connection whose ConnectionHandler has closed has called
\* unregister() exactly once, and no other connection has called it.
C5_UnregisterOnce ==
    \A c \in Conns :
        /\ h[c].st = "closed" => h[c].unreg = 1
        /\ h[c].st # "closed" => h[c].unreg = 0

C5_Witness ==
    \E c, d \in Conns :
        /\ h[c].st = "closed" /\ h[c].fifo # <<>> /\ h[c].unreg = 1
        /\ h[d].st = "closed" /\ h[d].got = <<>> /\ h[d].unreg = 1

\* C6: every item whose put has returned is in exactly one place: the queue,
\* or the items popped by exactly one handler, once; no other item is
\* anywhere.
C6_NoDuplicatePop ==
    \A i \in 1..MaxPush :
        Occurs(buffer, i) + Occurs(pipe, i) + SumOver(Conns, i)
            = IF PutDone(i) THEN 1 ELSE 0

C6_Witness ==
    /\ buffer = <<>> /\ pipe = <<>>
    /\ npush = MaxPush /\ ppc = "idle"
    /\ \E c, d \in Conns :
          c # d /\ h[c].got # <<>> /\ h[d].got # <<>>

C8_QueueBounded == Len(buffer) + Len(pipe) <= QueueCap

C8_Witness ==
    /\ Len(buffer) + Len(pipe) = QueueCap
    /\ ppc = "put"
    /\ \A c \in Conns : h[c].st = "new"

\* C9: every put the producer starts returns.
C9_PushReturns == (ppc = "put") ~> (ppc = "idle")

\* C10 as claimed: once the message is pushed and two clients are connected,
\* both receive it, unless one of them goes away.
C10_BothReceive ==
    (Open(1) /\ Open(2) /\ PutDone(1)) ~>
        ((Received(1, 1) /\ Received(2, 1)) \/ ~Open(1) \/ ~Open(2))

\* C10 as amended: no message is received by two connections; a connection
\* that received it holds its text followed by "\n".
C10_AtMostOneReceives ==
    \A i \in 1..MaxPush : \A c, d \in Conns :
        (Received(c, i) /\ Received(d, i)) => c = d

C10_Witness ==
    /\ Open(1) /\ Open(2)
    /\ Received(1, 1) /\ ~Received(2, 1)
    /\ h[1].wire = Text(1) \o <<"\n">>
    /\ buffer = <<>> /\ pipe = <<>>

----------------------------------------------------------------------------
InQueue(i) == Occurs(buffer, i) + Occurs(pipe, i) > 0

Popped(hd, i) == Occurs(hd.got, i) > 0

C11_Step ==
    \A c \in Conns :
        (h[c].st = "open" /\ h'[c].st = "closed") =>
            /\ \A d \in Conns \ {c} : h'[d] = h[d]
            /\ listening' = listening
            /\ relay' = relay
            /\ count' = count - 1
            /\ ready' = ready \ {c}
            /\ buffer' = buffer
            /\ \A i \in 1..MaxPush :
                   (InQueue(i) /\ ~InQueue(i)') => Popped(h'[c], i)

\* C11: a step that closes one handler leaves every other connection, the
\* listener and the run loop as they were, frees exactly one slot, and takes
\* nothing from the queue but what the closing handler itself popped.
C11_CloseIsLocal == [][C11_Step]_vars

C11_Witness ==
    \E c, d \in Conns :
        /\ h[c].st = "closed" /\ h[c].got = <<1>>
        /\ Open(d) /\ Received(d, 2)
        /\ listening /\ relay = "running"

C12_Step ==
    \A c \in Conns :
        (c \in ready /\ c \notin ready' /\ Open(c) /\ pipe = <<>>) =>
            /\ pipe' = <<>>
            /\ buffer' = buffer
            /\ h'[c].got = h[c].got
            /\ relay' = relay
            /\ IsPrefix(h[c].wire, h'[c].wire)
            /\ h'[c].wire \o Flat(h'[c].fifo) = h[c].wire \o Flat(h[c].fifo)
            /\ (h[c].fifo = <<>> /\ h'[c].st = "open") => h'[c] = h[c]

\* C12: an event of a handler that was reported writable and finds the queue
\* empty pops nothing and enqueues nothing, leaves the queue and the run loop
\* as they were, and only moves bytes of its own producer_fifo to the socket.
C12_EmptyPopFallsThrough == [][C12_Step]_vars

C12_Witness ==
    \E c, d \in Conns :
        /\ c # d
        /\ c \in ready /\ Open(c) /\ h[c].connected /\ h[c].fifo = <<>>
        /\ pipe = <<>>
        /\ h[d].got # <<>>

----------------------------------------------------------------------------
\* What a consumer reads: the byte stream cut at every "\n"; bytes after the
\* last "\n" are an incomplete message.
RECURSIVE SplitLines(_, _)
SplitLines(w, cur) ==
    IF w = <<>> THEN <<>>
    ELSE IF Head(w) = "\n" THEN <<cur>> \o SplitLines(Tail(w), <<>>)
    ELSE SplitLines(Tail(w), Append(cur, Head(w)))

\* C13: once a handler has flushed its producer_fifo, cutting its byte
\* stream at the terminator yields exactly the texts of the messages it
\* popped, in order.
C13_FramingRoundTrips ==
    \A c \in Conns :
        h[c].fifo = <<>> =>
            SplitLines(h[c].wire, <<>>)
                = [k \in DOMAIN h[c].got |-> Text(h[c].got[k])]

----------------------------------------------------------------------------
\* C14: a call of add in any process state other than not-yet-started fails
\* with an error and leaves the list of added components unchanged.
C14_Step ==
    (ap'.adds # ap.adds /\ ap.state # "initial")
        => (ap'.inits = ap.inits /\ ap'.exc = "RuntimeError")

C14_AddOnlyBeforeStart == [][C14_Step]_vars

\* C15: nothing is instantiated before start; the child instantiates the
\* entries added before start in the order added, each once, and is inside
\* the run loop only when all of them have been instantiated.
C15_Inv ==
    /\ ap.state = "initial" => ap.made = <<>>
    /\ IsAlive(ap) => ap.copy = ap.inits
    /\ IsPrefix(ap.made, ap.copy)
    /\ ap.state = "loop" => ap.made = ap.copy

C15_Step ==
    /\ (ap.state = "initial" /\ ap'.state # "initial")
           => (ap'.copy = ap.inits /\ ap'.made = <<>>)
    /\ ap.state # "initial" => ap'.copy = ap.copy
    /\ IsPrefix(ap.made, ap'.made)
    /\ Len(ap'.made) <= Len(ap.made) + 1

C15_StartInstantiatesAll == [](C15_Inv) /\ [][C15_Step]_vars

C15_Witness ==
    /\ ap.state = "loop"
    /\ Len(ap.made) >= 2
    /\ ap.made[1] # ap.made[2]

----------------------------------------------------------------------------
\* C16: the listener stays registered in the event loop and accepting, and
\* the run loop does not exit, whatever accepts, rejections, closes and
\* per-connection errors have happened.
C16_ListenerLives == listening /\ relay = "running"

\* C19: the listener's count equals the number of live ConnectionHandlers.
C19_CountIsLiveHandlers == count = Cardinality({c \in Conns : Open(c)})

----------------------------------------------------------------------------
\* Item i was popped by handler d and is still to be written by it.
Outstanding(d, i) == Open(d) /\ Popped(h[d], i) /\ ~Received(d, i)

\* Some consumer is connected.
SomeConnected == \E c \in Conns : Open(c) /\ h[c].connected

----------------------------------------------------------------------------
\* The distinct lower-cased words of the text that are in the vocabulary.
KnownWords(d) == WordsOf(d.text) \cap d.vocab

\* C18: a text with at least one word is classified as in the language
\* exactly when the fraction of its distinct lower-cased words that are in
\* the vocabulary is at least the threshold.
C18_KnownFraction ==
    (det.res # "none" /\ WordsOf(det.text) # {}) =>
        (det.res = "yes" <=>
            Cardinality(KnownWords(det)) * ThrSteps
                >= det.thr * Cardinality(WordsOf(det.text)))

----------------------------------------------------------------------------
\* The handlers that popped item i.
Holders(i) == {c \in Conns : Popped(h[c], i)}

\* The bytes handler c was given to send: those handed to the socket, then
\* those still in producer_fifo.
Stream(c) == h[c].wire \o Flat(h[c].fifo)

\* The frame of the k-th item handler c popped is whole and in its place
\* in Stream(c).
FrameKept(c, k) ==
    LET before == Len(FramesOf(SubSeq(h[c].got, 1, k - 1)))
        fr == Frame(h[c].got[k])
    IN  /\ Len(Stream(c)) >= before + Len(fr)
        /\ SubSeq(Stream(c), before + 1, before + Len(fr)) = fr

\* Item i, popped by the handler of c, is in exactly one of: waiting in the
\* live handler, written to the socket, discarded with the closed handler.
OnePlaceIn(c, i) ==
    LET discarded == ~Open(c) /\ ~Received(c, i)
    IN  /\ Occurs(h[c].got, i) = 1
        /\ \A k \in DOMAIN h[c].got : h[c].got[k] = i => FrameKept(c, k)
        /\ Cardinality({x \in {"out", "written", "discarded"} :
               \/ x = "out" /\ Outstanding(c, i)
               \/ x = "written" /\ Received(c, i)
               \/ x = "discarded" /\ discarded}) = 1

C20_Inv ==
    \A i \in 1..MaxPush :
        IF PutDone(i)
        THEN /\ Occurs(buffer \o pipe, i) + Cardinality(Holders(i)) = 1
             /\ \A c \in Holders(i) : OnePlaceIn(c, i)
        ELSE ~InQueue(i) /\ Holders(i) = {}

C20_Step ==
    \A i \in 1..MaxPush :
        /\ Holders(i) # {} => (~InQueue(i))' /\ Holders(i)' = Holders(i)
        /\ (InQueue(i) /\ (~InQueue(i))') =>
               \E c \in Conns : Open(c) /\ Holders(i)' = {c}

\* C20: every pushed message is in exactly one place (the queue, one
\* handler's outgoing buffer, one consumer's socket, or discarded with the
\* handler that popped it); a popped message never returns to the queue,
\* and a message leaves the queue only by being popped by a live handler.
C20_Conservation == [](C20_Inv) /\ [][C20_Step]_vars

C20_Witness ==
    \E c, d \in Conns :
        /\ ~Open(d) /\ Popped(h[d], 1) /\ ~Received(d, 1)
        /\ h[d].wire # <<>> /\ h[d].fifo # <<>>
        /\ Open(c) /\ InQueue(2)

====
